---- MODULE Spec2Model ----
(***************************************************************************)
(* A model of src/src/preprocess.py: the preprocessing pipeline that reads *)
(* the samples of one category and merges them into the train/test stores. *)
(*                                                                         *)
(* Every module-level function of preprocess.py is an operator with the    *)
(* function's name.  A call yields a result record                         *)
(*     [status, exc, value]                                                *)
(* with status "return" (value is the returned object), "raise" (exc is    *)
(* the exception class) or "diverges" (the call does not come back: the    *)
(* loop it is in grows its list without end until memory is exhausted).    *)
(* The actions are the calls a client of the module can make; each one     *)
(* records the call, its arguments and its result.                         *)
(*                                                                         *)
(* Spec has the calls of run_preprocess, gather_files and read_dataset on  *)
(* a model_dir whose store files are absent or well-formed; SpecContent    *)
(* has the calls of the readers and of the encoder.                        *)
(***************************************************************************)
EXTENDS Integers, Sequences, FiniteSets, TLC

VARIABLES
    disk,   \* model_dir: the persisted train.bin and test.bin
    call,   \* name of the function called last ("none" before any call)
    args,   \* the arguments of that call
    ret,    \* its result: [status, exc, value]
    log     \* the BinaryDs methods a run invoked, in order

vars == <<disk, call, args, ret, log>>

(***************************************************************************)
(* Bounds of the model.                                                    *)
(***************************************************************************)
MaxDirs == 2        \* directories os.walk yields for input_dir
MaxListLen == 4     \* cap of the list gather_files appends to
MaxFeatures == 2    \* features ranges over 1..MaxFeatures
MaxCategory == 1    \* category ids range over 0..MaxCategory
MaxFiles == 2       \* length of a files_list handed to a reader
MaxSamples == 3     \* lines of all the text files of a files_list together
MaxBlobLen == 3     \* bytes of a raw sample file

Categories == 0 .. MaxCategory
FeatureCounts == 1 .. MaxFeatures
\* split, the ratio training/total, as a fraction <<numerator, denominator>>
Splits == {<<1, 2>>, <<2, 3>>}

Result(status, exc, value) == [status |-> status, exc |-> exc, value |-> value]
Return(value) == Result("return", "", value)
Raise(exc) == Result("raise", exc, <<>>)
Diverges == Result("diverges", "", <<>>)

(***************************************************************************)
(* Text: a string is a sequence of one-character strings.                  *)
(***************************************************************************)
NL == "\n"
HexDigits == <<"0", "1", "2", "3", "4", "5", "6", "7", "8", "9",
               "A", "B", "C", "D", "E", "F">>
HexLower == <<"0", "1", "2", "3", "4", "5", "6", "7", "8", "9",
              "a", "b", "c", "d", "e", "f">>
IsHexDigit(c) == \E i \in 1 .. 16 : HexDigits[i] = c \/ HexLower[i] = c
HexVal(c) == (CHOOSE i \in 1 .. 16 : HexDigits[i] = c \/ HexLower[i] = c) - 1

\* the lines a sample file is made of, without their line terminator
Line_DEADC0DE == <<"D", "E", ",", "A", "D", ",", "C", "0", ",", "D", "E">>
Line_0A == <<"0", "A">>
Line_empty == <<>>
Line_brackets == <<"[", "]">>
Line_FF == <<"F", "F", ",">>
Line_odd == <<"F">>

(***************************************************************************)
(* Files.  A path stands for the file it names: name and extension, the    *)
(* number of times os.path.join(path, .) was applied to it, and what       *)
(* open() yields for it (the raw lines of a text file, terminators kept,   *)
(* or the bytes of a binary file).                                         *)
(***************************************************************************)
File(name, ext, content) ==
    [name |-> name, ext |-> ext, joins |-> 0, content |-> content]

\* os.path.join(path, cur_file)
os_path_join(cur_file) == [cur_file EXCEPT !.joins = @ + 1]
\* os.path.splitext(x)[1]
os_path_splitext_1(x) == x.ext

\* "for cur_file in files: files.append(cur_abs)": the list that is iterated
\* is the list that is appended to, so the index never catches up with it
RECURSIVE for_cur_file(_, _)
for_cur_file(files, i) ==
    IF i > Len(files) THEN Return(files)
    ELSE IF Len(files) >= MaxListLen THEN Diverges
    ELSE for_cur_file(Append(files, os_path_join(files[i])), i + 1)

\* "for _, _, files in os.walk(path)": input_dir is the sequence of file lists
\* os.walk yields, one per directory (none when the path does not exist);
\* the loop variable rebinds files at every directory
RECURSIVE for_os_walk(_, _, _)
for_os_walk(input_dir, d, files) ==
    IF d > Len(input_dir) THEN Return(files)
    ELSE LET r == for_cur_file(input_dir[d], 1)
         IN  IF r.status # "return" THEN r
             ELSE for_os_walk(input_dir, d + 1, r.value)

gather_files(path, function) ==
    LET walked == for_os_walk(path, 1, <<>>)
    IN  IF walked.status # "return" THEN walked
        ELSE LET ext == IF function THEN ".txt" ELSE ".bin"
                 files == SelectSeq(walked.value,
                                    LAMBDA x : os_path_splitext_1(x) = ext)
             IN  IF Len(files) = 0 THEN Raise("FileNotFoundError")
                 ELSE Return(files)

(***************************************************************************)
(* Reading and encoding the samples.                                       *)
(***************************************************************************)
RECURSIVE rstrip_nl(_)
rstrip_nl(s) ==
    IF Len(s) > 0 /\ s[Len(s)] = NL THEN rstrip_nl(SubSeq(s, 1, Len(s) - 1))
    ELSE s
RECURSIVE lstrip_nl(_)
lstrip_nl(s) == IF Len(s) > 0 /\ s[1] = NL THEN lstrip_nl(Tail(s)) ELSE s
\* line.strip('\n')
strip_nl(line) == lstrip_nl(rstrip_nl(line))

\* a reader that does not skip the "FF," line
RECURSIVE for_line_keeping_FF(_, _)
for_line_keeping_FF(f, functions) ==
    IF f = <<>> THEN functions
    ELSE LET line == strip_nl(Head(f))
         IN  IF line = Line_empty \/ line = Line_brackets
             THEN for_line_keeping_FF(Tail(f), functions)
             ELSE for_line_keeping_FF(Tail(f), Append(functions, line))

\* the lines of one open file, in order, that are kept
RECURSIVE for_line(_, _)
for_line(f, functions) ==
    IF f = <<>> THEN functions
    ELSE LET line == strip_nl(Head(f))
         IN  IF line = Line_FF \/ line = Line_empty \/ line = Line_brackets
             THEN for_line(Tail(f), functions)
             ELSE for_line(Tail(f), Append(functions, line))

RECURSIVE read_files_function_from(_, _)
read_files_function_from(files_list, functions) ==
    IF files_list = <<>> THEN functions
    ELSE read_files_function_from(Tail(files_list),
                                  for_line(Head(files_list).content, functions))

read_files_function(files_list) == read_files_function_from(files_list, <<>>)

RECURSIVE read_files_raw_from(_, _)
read_files_raw_from(files_list, functions) ==
    IF files_list = <<>> THEN functions
    ELSE read_files_raw_from(Tail(files_list),
                             Append(functions, Head(files_list).content))

read_files_raw(files_list) == read_files_raw_from(files_list, <<>>)

\* x.replace(",", "")
replace_comma(x) == SelectSeq(x, LAMBDA c : c # ",")

\* bytes.fromhex: two hex digits per byte, whitespace skipped between bytes
RECURSIVE bytes_fromhex(_)
bytes_fromhex(s) ==
    IF s = <<>> THEN Return(<<>>)
    ELSE IF Head(s) = " " THEN bytes_fromhex(Tail(s))
    ELSE IF Len(s) < 2 \/ ~IsHexDigit(s[1]) \/ ~IsHexDigit(s[2])
    THEN Raise("ValueError")
    ELSE LET rest == bytes_fromhex(SubSeq(s, 3, Len(s)))
         IN  IF rest.status # "return" THEN rest
             ELSE Return(<<16 * HexVal(s[1]) + HexVal(s[2])>> \o rest.value)

\* list(map(bytes.fromhex, func_list)): the first line that does not decode
\* raises
RECURSIVE map_fromhex(_)
map_fromhex(func_list) ==
    IF func_list = <<>> THEN Return(<<>>)
    ELSE LET b == bytes_fromhex(Head(func_list))
         IN  IF b.status # "return" THEN b
             ELSE LET rest == map_fromhex(Tail(func_list))
                  IN  IF rest.status # "return" THEN rest
                      ELSE Return(<<b.value>> \o rest.value)

encode_opcodes(func_list) ==
    map_fromhex([i \in 1 .. Len(func_list) |-> replace_comma(func_list[i])])

\* [x[i:i + features] for i in range(0, len(x), features)]
RECURSIVE chunks(_, _)
chunks(x, features) ==
    IF x = <<>> THEN <<>>
    ELSE IF Len(x) <= features THEN <<x>>
    ELSE <<SubSeq(x, 1, features)>> \o chunks(SubSeq(x, features + 1, Len(x)),
                                              features)

\* list(itertools.chain.from_iterable(x))
RECURSIVE chain_from_iterable(_)
chain_from_iterable(x) ==
    IF x = <<>> THEN <<>> ELSE Head(x) \o chain_from_iterable(Tail(x))

read_and_clean_content(files, function, features) ==
    IF function
    THEN encode_opcodes(read_files_function(files))
    ELSE Return(chain_from_iterable(chunks(read_files_raw(files), features)))

(***************************************************************************)
(* BinaryDs, the dataset store (module binaryds).  A store file is absent  *)
(* or holds a header and the examples of every category; a BinaryDs object *)
(* holds the same in memory, with the methods invoked on it so far.        *)
(***************************************************************************)
NoFile == [exists |-> FALSE]
StoreFile(features, function_granularity, data) ==
    [exists |-> TRUE, features |-> features,
     function_granularity |-> function_granularity, data |-> data]

BinaryDs(path) ==
    [path |-> path, features |-> 0, function_granularity |-> FALSE,
     data |-> [c \in Categories |-> <<>>], calls |-> <<>>]

Invoked(ds, method) == [ds EXCEPT !.calls = Append(@, method)]

\* dataset.read(): FileNotFoundError when the file does not exist
BinaryDs_read(ds) ==
    IF ~disk[ds.path].exists
    THEN Result("raise", "FileNotFoundError", Invoked(ds, "read"))
    ELSE Return([Invoked(ds, "read") EXCEPT
                     !.features = disk[ds.path].features,
                     !.function_granularity =
                         disk[ds.path].function_granularity,
                     !.data = disk[ds.path].data])

BinaryDs_set_features(ds, n) ==
    [Invoked(ds, "set_features") EXCEPT !.features = n]
BinaryDs_set_function_granularity(ds, b) ==
    [Invoked(ds, "set_function_granularity") EXCEPT !.function_granularity = b]
\* dataset.get(category): the examples of the category, in order
BinaryDs_get(ds, category) == ds.data[category]
\* dataset.set(category, examples)
BinaryDs_set(ds, category, examples) ==
    [Invoked(ds, "set") EXCEPT !.data[category] = examples]
\* this.rebalance(other): the call is recorded on both stores.  The ratio it
\* aims at is no argument of the call and the order of its moves is left
\* open, so the examples it moves between the stores are not modelled.
BinaryDs_rebalance(this, other) ==
    [this |-> Invoked(this, "rebalance"), other |-> Invoked(other, "rebalance")]
\* dataset.write(): the file a store would persist
BinaryDs_write(ds) ==
    StoreFile(ds.features, ds.function_granularity, ds.data)

(***************************************************************************)
(* read_dataset: value is the dataset object after the call.               *)
(***************************************************************************)
read_dataset(dataset, function, features) ==
    LET r == BinaryDs_read(dataset)
    IN  IF r.status = "raise"
        THEN \* except FileNotFoundError: setup dataset
             Return(BinaryDs_set_function_granularity(
                        BinaryDs_set_features(r.value, features), function))
        ELSE IF r.value.function_granularity # function
        THEN Result("raise", "ValueError", r.value)
        ELSE IF r.value.features # features
        THEN Result("raise", "ValueError", r.value)
        ELSE r

(***************************************************************************)
(* run_preprocess.  The result of a run is                                 *)
(*   [status, exc, train, test, disk]                                      *)
(* the two store objects as the run left them and the persisted files.     *)
(***************************************************************************)
RunResult(status, exc, train, test, dsk) ==
    [status |-> status, exc |-> exc, train |-> train, test |-> test,
     disk |-> dsk]

\* read_and_clean_content(files, function, features) takes three positional
\* arguments: a call with any other number of them raises TypeError
call_read_and_clean_content(argv) ==
    IF Len(argv) # 3 THEN Raise("TypeError")
    ELSE read_and_clean_content(argv[1], argv[2], argv[3])

\* math.floor(len(data) * split), split = num / den
split_index(data, split) == (Len(data) * split[1]) \div split[2]

\* random.shuffle(data): any permutation of data
Shuffles(data) ==
    {[i \in 1 .. Len(data) |-> data[p[i]]] : p \in Permutations(1 .. Len(data))}

\* lines 34-37 on the two store objects: gather, validate, read and clean.
\* data is the batch read at line 37.
run_preprocess_gather_read(train, test, dsk, input_dir, function, features) ==
    LET files == gather_files(input_dir, function)
    IN  IF files.status # "return"
        THEN [run |-> RunResult(files.status, files.exc, train, test, dsk),
              data |-> <<>>]
        ELSE
        LET rtrain == read_dataset(train, function, features)
        IN  IF rtrain.status # "return"
            THEN [run |-> RunResult(rtrain.status, rtrain.exc, rtrain.value,
                                    test, dsk),
                  data |-> <<>>]
            ELSE
            LET rtest == read_dataset(test, function, features)
            IN  IF rtest.status # "return"
                THEN [run |-> RunResult(rtest.status, rtest.exc, rtrain.value,
                                        rtest.value, dsk),
                      data |-> <<>>]
                ELSE
                LET data == call_read_and_clean_content(
                                <<files.value, function>>)
                IN  [run |-> RunResult(data.status, data.exc, rtrain.value,
                                       rtest.value, dsk),
                     data |-> data.value]

\* a run that creates the store files it does not find when it opens them
run_preprocess_read_creating(input_dir, category, function, features, split) ==
    run_preprocess_gather_read(
        BinaryDs("train"), BinaryDs("test"),
        [p \in {"train", "test"} |->
            IF disk[p].exists THEN disk[p] ELSE BinaryDs_write(BinaryDs(p))],
        input_dir, function, features)

\* lines 32-37: the stores are opened on model_dir, nothing is persisted
run_preprocess_read(input_dir, category, function, features, split) ==
    run_preprocess_gather_read(BinaryDs("train"), BinaryDs("test"), disk,
                               input_dir, function, features)

\* lines 39-49, on the shuffled batch
run_preprocess_append(read, data, category, split) ==
    LET index == split_index(data, split)
        new_train_data == SubSeq(data, 1, index)
        new_test_data == SubSeq(data, index + 1, Len(data))
        current_train_data ==
            BinaryDs_get(Invoked(read.run.train, "get"), category)
                \o new_train_data
        current_test_data ==
            BinaryDs_get(Invoked(read.run.test, "get"), category)
                \o new_test_data
        train == BinaryDs_set(Invoked(read.run.train, "get"), category,
                              current_train_data)
        test == BinaryDs_set(Invoked(read.run.test, "get"), category,
                             current_test_data)
        balanced == BinaryDs_rebalance(train, test)
    IN  RunResult("return", "", balanced.this, balanced.other, read.run.disk)

(***************************************************************************)
(* The inputs.                                                             *)
(***************************************************************************)
\* the sample files an input directory can hold
File_a_txt == File("a", ".txt", <<Line_DEADC0DE \o <<NL>>, Line_0A \o <<NL>>>>)
File_b_bin == File("b", ".bin", <<222, 173, 192>>)
DirFiles == {File_a_txt, File_b_bin}

\* the file list of one directory: the files of a set, in any order
Listings ==
    UNION {{s \in [1 .. Cardinality(S) -> S] :
                \A i, j \in DOMAIN s : i # j => s[i] # s[j]} :
           S \in SUBSET DirFiles}

SeqsUpTo(S, n) == UNION {[1 .. k -> S] : k \in 0 .. n}

\* what os.walk yields for input_dir: nothing for a missing path, else one
\* file list per directory of the tree
InputDirs == SeqsUpTo(Listings, MaxDirs)

\* a persisted store: a schema and one example in category 0
Example0(features) == [i \in 1 .. features |-> 0]
StoreFiles ==
    {NoFile} \cup
    {StoreFile(f, g, [c \in Categories |-> IF c = 0 THEN <<Example0(f)>>
                                                    ELSE <<>>]) :
        f \in FeatureCounts, g \in BOOLEAN}

NoCalls == [train |-> <<>>, test |-> <<>>]

Init ==
    /\ disk \in [{"train", "test"} -> StoreFiles]
    /\ call = "none"
    /\ args = <<>>
    /\ ret = Return(<<>>)
    /\ log = NoCalls

(***************************************************************************)
(* The calls.                                                              *)
(***************************************************************************)
Finish(run) ==
    /\ ret' = Result(run.status, run.exc,
                     [train |-> run.train, test |-> run.test])
    /\ log' = [train |-> run.train.calls, test |-> run.test.calls]
    /\ disk' = run.disk

RunPreprocess ==
    /\ call = "none"
    /\ \E input_dir \in InputDirs, category \in Categories,
          function \in BOOLEAN, features \in FeatureCounts, split \in Splits :
        /\ call' = "run_preprocess"
        /\ args' = [input_dir |-> input_dir, category |-> category,
                    function |-> function, features |-> features,
                    split |-> split]
        /\ LET read == run_preprocess_read(input_dir, category, function,
                                           features, split)
           IN  IF read.run.status # "return"
               THEN Finish(read.run)
               ELSE \E data \in Shuffles(read.data) :
                        Finish(run_preprocess_append(read, data, category,
                                                     split))

CallGatherFiles ==
    /\ call = "none"
    /\ \E path \in InputDirs, function \in BOOLEAN :
        /\ call' = "gather_files"
        /\ args' = [path |-> path, function |-> function]
        /\ LET r == gather_files(path, function)
           IN  ret' = r
        /\ log' = NoCalls
        /\ UNCHANGED disk

CallReadDataset ==
    /\ call = "none"
    /\ \E path \in {"train", "test"}, function \in BOOLEAN,
          features \in FeatureCounts :
        /\ call' = "read_dataset"
        /\ args' = [dataset |-> path, function |-> function,
                    features |-> features]
        /\ LET r == read_dataset(BinaryDs(path), function, features)
           IN  /\ ret' = r
               /\ log' = [NoCalls EXCEPT ![path] = r.value.calls]
        /\ UNCHANGED disk

\* Nothing in memory outlives a call: every run builds its BinaryDs objects
\* anew, and only the persisted files carry over to the next call.
Done ==
    /\ call # "none"
    /\ call' = "none"
    /\ args' = <<>>
    /\ ret' = Return(<<>>)
    /\ log' = NoCalls
    /\ UNCHANGED disk

Next == RunPreprocess \/ CallGatherFiles \/ CallReadDataset \/ Done

Spec == Init /\ [][Next]_vars

(***************************************************************************)
(* The readers and the encoder, called on their own.                       *)
(***************************************************************************)
\* the lines of the text files (with the terminator the file iteration
\* leaves on them); only the last line of a file can lack its terminator
LinePool == {Line_DEADC0DE, Line_0A, Line_empty, Line_brackets, Line_FF,
             Line_odd}
Terminated == {l \o <<NL>> : l \in LinePool}
Unterminated == {Line_0A}
RawLines == Terminated \cup Unterminated
LineSeqs == SeqsUpTo(RawLines, MaxSamples)

\* the files that hold the given lines: file i ends after line ends[i]
Cuts(lines) ==
    UNION {{ends \in [1 .. k -> 0 .. Len(lines)] :
                /\ \A i \in 1 .. k - 1 : ends[i] <= ends[i + 1]
                /\ IF k = 0 THEN lines = <<>> ELSE ends[k] = Len(lines)
                /\ \A n \in 1 .. Len(lines) :
                       lines[n] \in Unterminated
                           => \E i \in 1 .. k : ends[i] = n} :
           k \in 0 .. MaxFiles}
TextFiles(lines, ends) ==
    [i \in 1 .. Len(ends) |->
        File("a", ".txt",
             SubSeq(lines, (IF i = 1 THEN 0 ELSE ends[i - 1]) + 1, ends[i]))]

\* the strings encode_opcodes is given, also with blanks and lower case
Line_blank == <<"0", "A", ",", " ", "1", "b">>
Line_nonhex == <<"[", "]", ",">>
OpcodeLists ==
    SeqsUpTo(LinePool \cup {Line_blank, Line_nonhex}, MaxSamples)

Bytes == {0, 255}
Blobs == SeqsUpTo(Bytes, MaxBlobLen)
RawFilesLists == SeqsUpTo({File("b", ".bin", b) : b \in Blobs}, MaxFiles)

InitContent ==
    /\ disk = [p \in {"train", "test"} |-> NoFile]
    /\ call = "none"
    /\ args = <<>>
    /\ ret = Return(<<>>)
    /\ log = NoCalls

CallReadFilesFunction ==
    /\ call = "none"
    /\ \E lines \in LineSeqs :
        \E ends \in Cuts(lines) :
            /\ call' = "read_files_function"
            /\ args' = [files_list |-> TextFiles(lines, ends)]
            /\ ret' = Return(read_files_function(TextFiles(lines, ends)))
    /\ UNCHANGED <<disk, log>>

CallReadFilesRaw ==
    /\ call = "none"
    /\ \E files_list \in RawFilesLists :
        /\ call' = "read_files_raw"
        /\ args' = [files_list |-> files_list]
        /\ ret' = Return(read_files_raw(files_list))
    /\ UNCHANGED <<disk, log>>

CallEncodeOpcodes ==
    /\ call = "none"
    /\ \E func_list \in OpcodeLists :
        /\ call' = "encode_opcodes"
        /\ args' = [func_list |-> func_list]
        /\ ret' = encode_opcodes(func_list)
    /\ UNCHANGED <<disk, log>>

ReadAndCleanContent(files, function, features) ==
    /\ call' = "read_and_clean_content"
    /\ args' = [files |-> files, function |-> function, features |-> features]
    /\ ret' = read_and_clean_content(files, function, features)
    /\ UNCHANGED <<disk, log>>

CallReadAndCleanContent ==
    /\ call = "none"
    /\ \E features \in FeatureCounts :
        \/ \E lines \in LineSeqs :
               \E ends \in Cuts(lines) :
                   ReadAndCleanContent(TextFiles(lines, ends), TRUE, features)
        \/ \E files \in RawFilesLists :
               ReadAndCleanContent(files, FALSE, features)

NextContent ==
    \/ CallReadFilesFunction
    \/ CallReadFilesRaw
    \/ CallEncodeOpcodes
    \/ CallReadAndCleanContent
    \/ Done

SpecContent == InitContent /\ [][NextContent]_vars

(***************************************************************************)
(* The properties.                                                         *)
(***************************************************************************)
Stores == {"train", "test"}
IsRun == call = "run_preprocess"
Invokes(p, method) == \E i \in DOMAIN log[p] : log[p][i] = method

\* the extension a run of the given granularity looks for
ExpectedExt(function) == IF function THEN ".txt" ELSE ".bin"
HasExpectedFile(input_dir, function) ==
    \E d \in DOMAIN input_dir :
        \E i \in DOMAIN input_dir[d] :
            input_dir[d][i].ext = ExpectedExt(function)

\* a persisted store disagrees with the schema the call asks for
SchemaMismatch(a) ==
    \E p \in Stores :
        /\ disk[p].exists
        /\ \/ disk[p].features # a.features
           \/ disk[p].function_granularity # a.function

StoredExamples(file, category) ==
    IF file.exists THEN file.data[category] ELSE <<>>

\* C1: a run of run_preprocess that fails (it raises) leaves the persisted
\* train.bin and test.bin exactly as they were before the run: no failing
\* path writes a store file.
C1_FailedRunLeavesStoreFiles ==
    [][(call' = "run_preprocess" /\ ret'.status = "raise") => disk' = disk]_vars

\* a run has failed on a model_dir that holds one store file and lacks the
\* other
C1_Witness ==
    /\ IsRun
    /\ ret.status = "raise"
    /\ ret.exc = "FileNotFoundError"
    /\ disk["test"].exists
    /\ ~disk["train"].exists

\* C2: a run that asks for features or a granularity other than those of a
\* persisted store fails with the schema error (ValueError), and no set or
\* rebalance has been invoked on either store.  (Stated for the runs whose
\* input directory holds a sample file of the expected extension.)
C2_SchemaMismatchRaisesValueError ==
    (IsRun /\ SchemaMismatch(args)
           /\ HasExpectedFile(args.input_dir, args.function))
        => /\ ret.status = "raise"
           /\ ret.exc = "ValueError"
           /\ \A p \in Stores : ~Invokes(p, "set") /\ ~Invokes(p, "rebalance")

\* C3: a run either completes, and then write() was the last call on the
\* train store and on the test store, after set and rebalance; or it fails,
\* and then neither store was written.
C3_CompletesPersistedOrFailsUntouched ==
    IsRun
        => \/ /\ ret.status = "return"
              /\ \A p \in Stores :
                    /\ Invokes(p, "set")
                    /\ Invokes(p, "rebalance")
                    /\ log[p][Len(log[p])] = "write"
           \/ /\ ret.status = "raise"
              /\ \A p \in Stores : ~Invokes(p, "write")

\* the byte stream of a list of raw files, and its windows of F bytes
RECURSIVE ByteStream(_)
ByteStream(files) ==
    IF files = <<>> THEN <<>> ELSE Head(files).content \o ByteStream(Tail(files))
Windows(stream, F) ==
    [k \in 1 .. (Len(stream) \div F) |-> SubSeq(stream, (k - 1) * F + 1, k * F)]

\* C4: in raw granularity read_and_clean_content returns the floor(L/F)
\* consecutive windows of F bytes of the concatenated file contents (L bytes),
\* the last L mod F bytes dropped.
C4_RawWindows ==
    (call = "read_and_clean_content" /\ ~args.function)
        => /\ ret.status = "return"
           /\ ret.value = Windows(ByteStream(args.files), args.features)

\* the samples a function-granularity input directory holds: the lines of its
\* .txt files that are not skipped
RECURSIVE AllLines(_)
AllLines(files) ==
    IF files = <<>> THEN <<>> ELSE Head(files).content \o AllLines(Tail(files))
RECURSIVE AllFiles(_)
AllFiles(input_dir) ==
    IF input_dir = <<>> THEN <<>>
    ELSE Head(input_dir) \o AllFiles(Tail(input_dir))
WithoutTerminator(raw) ==
    IF raw # <<>> /\ raw[Len(raw)] = NL THEN SubSeq(raw, 1, Len(raw) - 1)
    ELSE raw
Skipped(line) == line \in {Line_empty, Line_brackets, Line_FF}
KeptLines(files) ==
    SelectSeq([i \in DOMAIN AllLines(files) |->
                  WithoutTerminator(AllLines(files)[i])],
              LAMBDA l : ~Skipped(l))
SamplesIn(input_dir) ==
    Len(KeptLines(SelectSeq(AllFiles(input_dir), LAMBDA f : f.ext = ".txt")))

\* C5: a run over a batch of N new examples leaves floor(N * split) more
\* examples in the train store and N - floor(N * split) more in the test
\* store, for its category, than the stores held before.  (Stated for the
\* function-granularity runs on absent or compatible stores.)
C5_SplitSizing ==
    [][(call' = "run_preprocess" /\ args'.function /\ ~SchemaMismatch(args'))
         => LET N == SamplesIn(args'.input_dir)
                k == (N * args'.split[1]) \div args'.split[2]
                c == args'.category
            IN  /\ Len(ret'.value.train.data[c])
                     = Len(StoredExamples(disk["train"], c)) + k
                /\ Len(ret'.value.test.data[c])
                     = Len(StoredExamples(disk["test"], c)) + N - k]_vars

\* the bytes of a well-formed line: the pairs of hex digits between the commas
Digits(line) == SelectSeq(line, LAMBDA c : c # ",")
WellFormed(line) ==
    /\ Len(Digits(line)) % 2 = 0
    /\ \A i \in DOMAIN Digits(line) : IsHexDigit(Digits(line)[i])
Decoded(line) ==
    [j \in 1 .. (Len(Digits(line)) \div 2) |->
        16 * HexVal(Digits(line)[2 * j - 1]) + HexVal(Digits(line)[2 * j])]

\* C6: in function granularity the encoded output holds, in file order and
\* then line order, one example per line that is not "", "[]" or "FF,": the
\* bytes of the line with its commas removed, hex-decoded ("DE,AD,C0,DE"
\* gives DE AD C0 DE).  Skipped lines give no example, no other line is lost.
C6_FunctionEncoding ==
    (call = "read_and_clean_content" /\ args.function)
        => LET kept == KeptLines(args.files)
           IN  /\ ret.status = "return"
                     <=> \A i \in DOMAIN kept : WellFormed(kept[i])
               /\ ret.status = "return"
                     => /\ ret.value = [i \in DOMAIN kept |-> Decoded(kept[i])]
                        /\ \A i \in DOMAIN kept :
                              kept[i] = Line_DEADC0DE
                                  => ret.value[i] = <<222, 173, 192, 222>>

\* two files were encoded: skipped lines among them, and one example each
C6_Witness ==
    /\ call = "read_and_clean_content"
    /\ args.function
    /\ Len(args.files) = 2
    /\ \E i \in DOMAIN AllLines(args.files) :
          Skipped(WithoutTerminator(AllLines(args.files)[i]))
    /\ ret.status = "return"
    /\ ret.value = <<<<10>>, <<222, 173, 192, 222>>>>

\* C7: when no file of the input directory has the expected extension (the
\* directory is missing, empty, or holds only other files), gather_files
\* raises the Not-Found error.
C7_NoMatchingFileRaisesNotFound ==
    (call = "gather_files" /\ ~HasExpectedFile(args.path, args.function))
        => ret.status = "raise" /\ ret.exc = "FileNotFoundError"

C10_ValidRunReturns ==
    (IsRun /\ HasExpectedFile(args.input_dir, args.function)
           /\ ~SchemaMismatch(args))
        => ret.status = "return" /\ Invokes("train", "rebalance")

====
